---- MODULE Spec2Model ----
(***************************************************************************)
(* Model of the todo REST service: the Mongoose schema of models/Todo.ts   *)
(* and the five route handlers of routes/todos.ts.                         *)
(*                                                                         *)
(* Strings are kept in run-length form: lead whitespace characters, then a *)
(* core of `core` characters that starts and ends with a non-whitespace    *)
(* character, then trail whitespace characters.  A string with core = 0 is *)
(* empty or whitespace-only.                                               *)
(*                                                                         *)
(* The handlers are asynchronous: Create and Update run up to their await  *)
(* (validation, normalisation, Mongoose's client-side casting, validators  *)
(* and timestamps) in one step and leave a store operation in flight; the  *)
(* store then applies it atomically in a later step, so the operations of  *)
(* concurrent requests interleave.  Get, List and Delete compute nothing   *)
(* before their store operation that depends on the state, so they are one *)
(* step each.                                                              *)
(***************************************************************************)
EXTENDS Integers, Sequences, FiniteSets, Bags, TLC

VARIABLES
    store,      \* the collection: a function from the ids of the stored documents
    nextId,     \* the number of the next id the driver generates
    now,        \* the clock of the server process, in milliseconds
    inflight,   \* the bag of store operations of Create and Update sent, not yet applied
    last,       \* the latest response, with the request it answers
    nreq,       \* the number of requests received
    written     \* history: per stored document, the value last written to each field

vars == <<store, nextId, now, inflight, last, nreq, written>>

\* ---------------------------------------------------------------- bounds
MaxTime == 2
MaxRequests == 2
MaxInputRequests == 1

\* ------------------------------------------------------ schema constants
TitleMaxLen == 100
DescMaxLen == 500

\* ----------------------------------------------------------- JSON values
Undef == [t |-> "undef", lead |-> 0, core |-> 0, trail |-> 0]
Null == [t |-> "null", lead |-> 0, core |-> 0, trail |-> 0]
Num == [t |-> "num", lead |-> 0, core |-> 0, trail |-> 0]
Str(l, c, r) == [t |-> "str", lead |-> l, core |-> c, trail |-> r]
True == [t |-> "bool", lead |-> 0, core |-> 1, trail |-> 0]
False == [t |-> "bool", lead |-> 0, core |-> 0, trail |-> 0]

IsStr(v) == v.t = "str"
Length(v) == v.lead + v.core + v.trail
\* String.prototype.trim
Trim(v) == [v EXCEPT !.lead = 0, !.trail = 0]
\* JavaScript truthiness of a value
Truthy(v) ==
    CASE v.t = "undef" -> FALSE
      [] v.t = "null" -> FALSE
      [] v.t = "str" -> Length(v) > 0
      [] v.t = "bool" -> v.core = 1
      [] OTHER -> TRUE
\* v.trim() throws a TypeError unless v is a string
TrimThrows(v) == ~IsStr(v)

\* ---------------------------------------------------------- identifiers
\* A path id: the key it denotes, its length and whether it is all hex digits
Id(k, n, h) == [key |-> k, len |-> n, hex |-> h]
NoId == Id(0, 0, FALSE)
ObjectId(k) == Id(k, 24, TRUE)
\* the ids a request may name: those the driver has generated, one it never
\* generated (key 0), and malformed ones
PathIds(n) == {ObjectId(k) : k \in 0..(n - 1)} \cup {Id(1, 24, FALSE)}
WidePathIds(n) == PathIds(n) \cup {Id(1, 5, TRUE)}

\* mongoose.Types.ObjectId.isValid on a path parameter
isValidLoose(id) == id.len = 24
isValid(id) == id.len = 24 /\ id.hex
\* Mongoose's cast of the id to an ObjectId, done before the query is sent
CastIdThrows(id) == ~(id.len = 24 /\ id.hex)

\* ------------------------------------------------------- request bodies
\* req.body as express.json() delivers it: an object of JSON values
Body(ti, de, co) == [title |-> ti, description |-> de, completed |-> co]
EmptyBody == Body(Undef, Undef, Undef)

\* the bodies of POST requests
CreateBodies ==
    {Body(Str(1, 1, 1), Undef, True),
     Body(Str(0, TitleMaxLen, 1), Str(0, 1, 1), Undef),
     Body(Str(2, 0, 0), Undef, Undef)}

WideCreateBodies ==
    CreateBodies \cup
    {Body(Undef, Undef, Undef),
     Body(Num, Undef, Undef),
     Body(Str(0, 0, 0), Str(0, 1, 0), Undef),
     Body(Str(1, 1, 1), Num, Undef),
     Body(Str(1, 1, 1), Null, Undef),
     Body(Str(1, 1, 1), Str(0, DescMaxLen + 1, 0), Undef),
     Body(Str(1, TitleMaxLen, 0), Str(1, 0, 0), Undef),
     Body(Str(0, 1, 0), Str(0, DescMaxLen, 1), Undef),
     Body(Str(0, TitleMaxLen + 1, 0), Undef, Undef)}

\* the bodies of PUT requests
UpdateBodies ==
    {Body(Str(1, 1, 1), Undef, Undef),
     Body(Str(2, 0, 0), Undef, Undef),
     Body(Undef, Str(1, 0, 0), Undef),
     Body(Undef, Undef, True),
     Body(Undef, Undef, False)}

WideUpdateBodies ==
    UpdateBodies \cup
    {Body(Undef, Undef, Undef),
     Body(Null, Undef, Undef),
     Body(Num, Undef, True),
     Body(Str(0, 0, 0), Undef, Undef),
     Body(Str(2, 0, 0), Undef, True),
     Body(Str(0, TitleMaxLen + 1, 0), Undef, Undef),
     Body(Undef, Str(0, 1, 1), Undef),
     Body(Undef, Str(0, DescMaxLen + 1, 0), Undef),
     Body(Undef, Null, Undef),
     Body(Undef, Num, Undef),
     Body(Str(0, TitleMaxLen, 1), Str(0, DescMaxLen, 0), False),
     Body(Undef, Undef, Str(0, 1, 0))}

\* ------------------------------------------------------------ the schema
\* TodoSchema.title: required, trim, maxlength 100 (setters run, then validators)
TitleMaxLengthOnly(v) == IsStr(v) /\ Length(Trim(v)) > TitleMaxLen
TitleValidatorFails(v) ==
    \/ ~IsStr(v)
    \/ Length(Trim(v)) = 0
    \/ Length(Trim(v)) > TitleMaxLen
\* TodoSchema.description: optional, trim, maxlength 500
DescValidatorFails(v) == IsStr(v) /\ Length(Trim(v)) > DescMaxLen
\* TodoSchema.completed: Boolean; a value Mongoose cannot cast is a CastError
CompletedCastThrows(v) == v.t \notin {"bool", "undef"}

\* A stored document
Doc(k, ti, de, co, c, u) ==
    [id |-> k, title |-> ti, description |-> de, completed |-> co,
     createdAt |-> c, updatedAt |-> u]

\* ------------------------------------------------------------- responses
\* at is the clock reading Mongoose stamped
\* the write with (-1 when the request stamped none); ops counts the store
\* operations the request performed; raced tells that another update of the
\* same document was applied while this one was in flight
Response(op, id, body, status, msg, cause, data, count, ops, at, raced) ==
    [op |-> op, id |-> id, body |-> body, status |-> status,
     success |-> (status \in {200, 201}), msg |-> msg, cause |-> cause,
     data |-> data, count |-> count, ops |-> ops, at |-> at, raced |-> raced]

NoResponse ==
    Response("none", NoId, EmptyBody, 0, "", "none", <<>>, -1, 0, -1, FALSE)

InvalidIdResponse(op, id, body) ==
    Response(op, id, body, 400, "Invalid todo ID format", "none",
             <<>>, -1, 0, -1, FALSE)
NotFoundResponse(op, id, body, at, raced) ==
    Response(op, id, body, 404, "Todo not found", "none", <<>>, -1, 1, at, raced)
\* the catch block of a handler: any thrown error becomes a 500
CaughtResponse(op, id, body, cause, ops) ==
    Response(op, id, body, 500,
             CASE op = "list" -> "Failed to fetch todos"
               [] op = "get" -> "Failed to fetch todo"
               [] op = "create" -> "Failed to create todo"
               [] op = "update" -> "Failed to update todo"
               [] OTHER -> "Failed to delete todo",
             cause, <<>>, -1, ops, -1, FALSE)

\* ------------------------------------------------------- pure functions
\* description?.trim() || undefined
KeepEmptyDescription(v) ==
    IF v.t \in {"undef", "null"} THEN Undef ELSE Trim(v)
NormalizeDescription(v) ==
    IF v.t \in {"undef", "null"} THEN Undef
    ELSE IF Length(Trim(v)) = 0 THEN Undef ELSE Trim(v)

\* the keys of updateData built from an update body
TruthyKeys(body) ==
    {f \in {"title", "description", "completed"} :
        IF f = "completed" THEN body[f] # Undef ELSE Truthy(Trim(body[f]))}
UpdateKeys(body) ==
    {f \in {"title", "description", "completed"} : body[f] # Undef}

\* updateData: a key of UpdateKeys holds the normalised value, possibly undefined
UpdateData(body) ==
    [title |-> IF body.title # Undef THEN Trim(body.title) ELSE Undef,
     description |-> NormalizeDescription(body.description),
     completed |-> body.completed]

\* the $set Mongoose sends: keys whose value is undefined are stripped
\* (Mongoose 6 and later), so a blank description leaves the stored one alone
AllFields(body) == {"title", "description", "completed"}
SetFields(body) == {f \in UpdateKeys(body) : UpdateData(body)[f] # Undef}

\* findByIdAndUpdate applied by the store to the stored document; the schema's
\* timestamps option adds updatedAt to the $set
ApplyUpdateTouchingCreatedAt(doc, data, fields, ts) ==
    [doc EXCEPT
        !.title = IF "title" \in fields THEN data.title ELSE @,
        !.description = IF "description" \in fields THEN data.description ELSE @,
        !.completed = IF "completed" \in fields THEN (data.completed = True) ELSE @,
        !.createdAt = ts,
        !.updatedAt = ts]
ApplyUpdate(doc, data, fields, ts) ==
    [doc EXCEPT
        !.title = IF "title" \in fields THEN data.title ELSE @,
        !.description = IF "description" \in fields THEN data.description ELSE @,
        !.completed = IF "completed" \in fields THEN (data.completed = True) ELSE @,
        !.updatedAt = ts]

\* the document new Todo({title, description}) saves: completed takes its
\* default, both timestamps are the time of the save
NewTodo(k, body, ts) ==
    Doc(k, Trim(body.title), NormalizeDescription(body.description), FALSE, ts, ts)

\* ------------------------------------------------------------- the state
\* an operation sent to the store and not yet applied
Op(kind, k, body, ts) ==
    [kind |-> kind, key |-> k, body |-> body, ts |-> ts, raced |-> FALSE]

\* the collections the server may find when it starts: documents saved by
\* earlier runs, each as a Create leaves it, at times the clock has passed
InitialDocs ==
    <<Doc(1, Str(0, 1, 0), Undef, FALSE, 0, 0),
      Doc(2, Str(0, TitleMaxLen, 0), Str(0, 1, 0), FALSE, 1, 1)>>

Init ==
    /\ \E n \in 0..Len(InitialDocs) :
        /\ store = [k \in 1..n |-> InitialDocs[k]]
        /\ nextId = n + 1
        /\ now = n
        /\ written = [k \in 1..n |->
                        Body(InitialDocs[k].title, InitialDocs[k].description, False)]
    /\ inflight = EmptyBag
    /\ last = NoResponse
    /\ nreq = 0

Live == DOMAIN store

\* a request arrives, one of at most max
Arrive(max) == nreq < max /\ nreq' = nreq + 1

\* the value each field holds once a request with this body has been applied
LastWritten(old, body) ==
    [title |-> IF IsStr(body.title) THEN Trim(body.title) ELSE old.title,
     description |->
        IF IsStr(body.description) /\ body.description.core > 0
        THEN Trim(body.description) ELSE old.description,
     completed |->
        IF body.completed.t = "bool" THEN body.completed ELSE old.completed]

\* the clock of the server process advances
Tick ==
    /\ now < MaxTime
    /\ now' = now + 1
    /\ UNCHANGED <<store, nextId, inflight, last, nreq, written>>

\* ------------------------------------------------------------ GET /
\* sort({ createdAt: -1 }): newest first; the order among equal createdAt is
\* the store's
SortedAsc(s) ==
    \A i \in 1..Len(s) : \A j \in 1..Len(s) :
        i < j => s[i].createdAt <= s[j].createdAt
SortedDesc(s) ==
    \A i \in 1..Len(s) : \A j \in 1..Len(s) :
        i < j => s[i].createdAt >= s[j].createdAt

\* Todo.find().sort(...): every stored document once, sorted
FindSorted ==
    {s \in [1..Cardinality(Live) -> {store[k] : k \in Live}] :
        /\ \A i \in DOMAIN s : \A j \in DOMAIN s : i # j => s[i] # s[j]
        /\ SortedDesc(s)}

List(max) ==
    /\ Arrive(max)
    /\ \/ \E todos \in FindSorted :
            last' = Response("list", NoId, EmptyBody, 200, "", "none",
                             todos, Len(todos), 1, -1, FALSE)
       \/ last' = CaughtResponse("list", NoId, EmptyBody, "StoreFailure", 1)
    /\ UNCHANGED <<store, nextId, now, inflight, written>>

\* ------------------------------------------------------------ GET /:id
GetResponse(id, fails) ==
    IF ~isValid(id) THEN InvalidIdResponse("get", id, EmptyBody)
    ELSE IF CastIdThrows(id) THEN CaughtResponse("get", id, EmptyBody, "CastError", 0)
    ELSE IF fails THEN CaughtResponse("get", id, EmptyBody, "StoreFailure", 1)
    ELSE IF id.key \notin Live
        THEN NotFoundResponse("get", id, EmptyBody, -1, FALSE)
    ELSE Response("get", id, EmptyBody, 200, "", "none",
                  <<store[id.key]>>, -1, 1, -1, FALSE)

GetTouching(max, ids) ==
    /\ Arrive(max)
    /\ \E id \in ids : \E fails \in BOOLEAN :
        /\ last' = GetResponse(id, fails)
        /\ store' = IF last'.status = 200
                    THEN [store EXCEPT ![id.key].updatedAt = now] ELSE store
    /\ UNCHANGED <<nextId, now, inflight, written>>
Get(max, ids) ==
    /\ Arrive(max)
    /\ \E id \in ids : \E fails \in BOOLEAN : last' = GetResponse(id, fails)
    /\ UNCHANGED <<store, nextId, now, inflight, written>>

\* ------------------------------------------------------------ POST /
TitleRequired(body) ==
    Response("create", NoId, body, 400, "Title is required", "none",
             <<>>, -1, 0, -1, FALSE)

\* what the handler answers before any store operation, or NoResponse when
\* newTodo.save() passes validation and sends the insert
CreateEarly(body) ==
    IF ~Truthy(body.title) THEN TitleRequired(body)
    ELSE IF TrimThrows(body.title)
        THEN CaughtResponse("create", NoId, body, "TypeError", 0)
    ELSE IF Length(Trim(body.title)) = 0 THEN TitleRequired(body)
    ELSE IF body.description.t \notin {"undef", "null"} /\ TrimThrows(body.description)
        THEN CaughtResponse("create", NoId, body, "TypeError", 0)
    ELSE IF \/ TitleValidatorFails(Trim(body.title))
            \/ DescValidatorFails(NormalizeDescription(body.description))
        THEN CaughtResponse("create", NoId, body, "ValidationError", 0)
    ELSE NoResponse

CreateBegin(max, bodies) ==
    /\ Arrive(max)
    /\ \E body \in bodies :
        IF CreateEarly(body) # NoResponse
        THEN /\ last' = CreateEarly(body)
             /\ UNCHANGED <<store, nextId, now, inflight, written>>
        ELSE /\ inflight' = inflight (+) SetToBag({Op("create", nextId, body, now)})
             /\ nextId' = nextId + 1
             /\ UNCHANGED <<store, now, last, written>>

\* the store applies an insert
CreateExec ==
    \E op \in BagToSet(inflight) :
        /\ op.kind = "create"
        /\ store' = [k \in Live \cup {op.key} |->
                        IF k = op.key THEN NewTodo(op.key, op.body, op.ts) ELSE store[k]]
        /\ written' = [k \in Live \cup {op.key} |->
                        IF k = op.key
                        THEN LastWritten(Body(Undef, Undef, False),
                                         [op.body EXCEPT !.completed = Undef])
                        ELSE written[k]]
        /\ inflight' = inflight (-) SetToBag({op})
        /\ last' = Response("create", NoId, op.body, 201,
                            "Todo created successfully", "none",
                            <<NewTodo(op.key, op.body, op.ts)>>, -1, 1, op.ts, FALSE)
        /\ UNCHANGED <<nextId, now, nreq>>

\* ------------------------------------------------------------ PUT /:id
AtLeastOneField(id, body) ==
    Response("update", id, body, 400,
             "At least one field (title, description, or completed) must be provided for update",
             "none", <<>>, -1, 0, -1, FALSE)

\* what the handler answers before any store operation, or NoResponse when
\* findByIdAndUpdate passes casting and the update validators and is sent
UpdateEarly(id, body) ==
    IF ~isValid(id) THEN InvalidIdResponse("update", id, body)
    ELSE IF body.title # Undef /\ TrimThrows(body.title)
        THEN CaughtResponse("update", id, body, "TypeError", 0)
    ELSE IF body.description.t \notin {"undef", "null"} /\ TrimThrows(body.description)
        THEN CaughtResponse("update", id, body, "TypeError", 0)
    ELSE IF UpdateKeys(body) = {} THEN AtLeastOneField(id, body)
    ELSE IF CastIdThrows(id) \/ CompletedCastThrows(body.completed)
        THEN CaughtResponse("update", id, body, "CastError", 0)
    ELSE IF \/ "title" \in SetFields(body) /\ TitleValidatorFails(UpdateData(body).title)
            \/ "description" \in SetFields(body)
                    /\ DescValidatorFails(UpdateData(body).description)
        THEN CaughtResponse("update", id, body, "ValidationError", 0)
    ELSE NoResponse

UpdateBegin(max, ids, bodies) ==
    /\ Arrive(max)
    /\ \E id \in ids : \E body \in bodies :
        IF UpdateEarly(id, body) # NoResponse
        THEN /\ last' = UpdateEarly(id, body)
             /\ UNCHANGED <<store, nextId, now, inflight, written>>
        ELSE /\ inflight' = inflight (+) SetToBag({Op("update", id.key, body, now)})
             /\ UNCHANGED <<store, nextId, now, last, written>>

\* an update still in flight that another update of the same document overtakes
Overtaken(o, op) ==
    IF o.kind = "update" /\ o.key = op.key THEN [o EXCEPT !.raced = TRUE] ELSE o

\* the operations in flight once op has been applied
Remaining(op) ==
    LET rest == inflight (-) SetToBag({op})
        copies(o) == IF BagIn(o, rest) THEN rest[o] ELSE 0
    IN  [e \in {Overtaken(o, op) : o \in BagToSet(rest)} |->
            IF Overtaken(e, op) # e THEN copies(e)
            ELSE IF e.raced /\ Overtaken([e EXCEPT !.raced = FALSE], op) = e
                THEN copies(e) + copies([e EXCEPT !.raced = FALSE])
            ELSE copies(e)]

\* the store applies a findOneAndUpdate, atomically
UpdateExec ==
    \E op \in BagToSet(inflight) :
        /\ op.kind = "update"
        /\ IF op.key \notin Live
           THEN /\ last' = NotFoundResponse("update", ObjectId(op.key), op.body,
                                            op.ts, op.raced)
                /\ inflight' = inflight (-) SetToBag({op})
                /\ UNCHANGED <<store, written>>
           ELSE /\ store' = [store EXCEPT ![op.key] =
                                ApplyUpdate(@, UpdateData(op.body), SetFields(op.body), op.ts)]
                /\ written' = [written EXCEPT ![op.key] = LastWritten(@, op.body)]
                /\ inflight' = Remaining(op)
                /\ last' = Response("update", ObjectId(op.key), op.body, 200,
                                    "Todo updated successfully", "none",
                                    <<store'[op.key]>>, -1, 1, op.ts, op.raced)
        /\ UNCHANGED <<nextId, now, nreq>>

\* the store fails an operation in flight: save() or findByIdAndUpdate rejects
StoreFail ==
    \E op \in BagToSet(inflight) :
        /\ inflight' = inflight (-) SetToBag({op})
        /\ last' = CaughtResponse(op.kind,
                                  IF op.kind = "update" THEN ObjectId(op.key) ELSE NoId,
                                  op.body, "StoreFailure", 1)
        /\ UNCHANGED <<store, nextId, now, nreq, written>>

\* --------------------------------------------------------- DELETE /:id
DeleteEarly(id) ==
    IF ~isValid(id) THEN InvalidIdResponse("delete", id, EmptyBody)
    ELSE IF CastIdThrows(id)
        THEN CaughtResponse("delete", id, EmptyBody, "CastError", 0)
    ELSE NoResponse

\* the collection once findByIdAndDelete has removed the document
KeepDoc(st, k) == st
RemoveDoc(st, k) == [j \in (DOMAIN st) \ {k} |-> st[j]]

Delete(max, ids) ==
    /\ Arrive(max)
    /\ \E id \in ids :
        IF DeleteEarly(id) # NoResponse
        THEN /\ last' = DeleteEarly(id)
             /\ UNCHANGED <<store, nextId, now, inflight, written>>
        ELSE \/ /\ last' = CaughtResponse("delete", id, EmptyBody, "StoreFailure", 1)
                /\ UNCHANGED <<store, nextId, now, inflight, written>>
             \/ /\ id.key \notin Live
                /\ last' = NotFoundResponse("delete", id, EmptyBody, -1, FALSE)
                /\ UNCHANGED <<store, nextId, now, inflight, written>>
             \/ /\ id.key \in Live
                /\ store' = RemoveDoc(store, id.key)
                /\ written' = [j \in DOMAIN store' |-> written[j]]
                /\ last' = Response("delete", id, EmptyBody, 200,
                                    "Todo deleted successfully", "none",
                                    <<store[id.key]>>, -1, 1, -1, FALSE)
                /\ UNCHANGED <<nextId, now, inflight>>

\* ------------------------------------------------------- specifications
\* concurrent requests over a few well-formed bodies
Next ==
    \/ Tick
    \/ List(MaxRequests)
    \/ Get(MaxRequests, PathIds(nextId))
    \/ CreateBegin(MaxRequests, CreateBodies)
    \/ CreateExec
    \/ UpdateBegin(MaxRequests, PathIds(nextId), UpdateBodies)
    \/ UpdateExec
    \/ StoreFail
    \/ Delete(MaxRequests, PathIds(nextId))

Spec == Init /\ [][Next]_vars

\* fewer requests over every kind of body and path id
NextInputs ==
    \/ Tick
    \/ List(MaxInputRequests)
    \/ Get(MaxInputRequests, WidePathIds(nextId))
    \/ CreateBegin(MaxInputRequests, WideCreateBodies)
    \/ CreateExec
    \/ UpdateBegin(MaxInputRequests, WidePathIds(nextId), WideUpdateBodies)
    \/ UpdateExec
    \/ StoreFail
    \/ Delete(MaxInputRequests, WidePathIds(nextId))

SpecInputs == Init /\ [][NextInputs]_vars

\* ========================================================== properties
\* this step answers a request: at once (the request arrives and sends nothing
\* to the store), or when the store applies or fails its operation
AnswersAtOnce == nreq' = nreq + 1 /\ inflight' = inflight
AnswersFromStore == nreq' = nreq /\ inflight' # inflight
StepAnswers == AnswersAtOnce \/ AnswersFromStore

NonBlank(v) == v.t = "str" /\ v.core > 0
WellFormed(id) == id.len = 24 /\ id.hex
AtLeastOneMsg ==
    "At least one field (title, description, or completed) must be provided for update"

\* a body the validation rules reject: a title that is no string, blank or
\* longer than 100 characters, a description that is no string or longer than
\* 500 characters, a completed that is no boolean
BadTitle(v) == v.t # "str" \/ v.core = 0 \/ v.core > 100
BadDescription(v) == v.t \notin {"undef", "null", "str"} \/ (v.t = "str" /\ v.core > 500)
BadCompleted(v) == v.t \notin {"undef", "bool"}
Rejectable(r) ==
    \/ r.op = "create" /\ (BadTitle(r.body.title) \/ BadDescription(r.body.description))
    \/ r.op = "update" /\
        \/ r.body.title # Undef /\ BadTitle(r.body.title)
        \/ BadDescription(r.body.description)
        \/ BadCompleted(r.body.completed)
        \/ r.body = EmptyBody

\* C1: a Create or Update whose input the validation rules reject is answered
\* 400, never 500: a 500 is answered only when the store fails
C1_ValidationNever500 ==
    last.op \in {"create", "update"} =>
        /\ last.status = 500 => last.cause = "StoreFailure"
        /\ Rejectable(last) => last.status = 400

\* C2: Get, Update and Delete answer a malformed path id with 400 and
\* success = false, whatever the body, and perform no store operation
C2_MalformedIdRejected ==
    (last.op \in {"get", "update", "delete"} /\ ~WellFormed(last.id)) =>
        /\ last.status = 400
        /\ ~last.success
        /\ last.ops = 0
        /\ last.data = <<>>

C2_Witness ==
    /\ last.op = "update"
    /\ ~WellFormed(last.id)
    /\ last.body.completed = True
    /\ last.status = 400
    /\ Live # {}

\* C3: an Update with an empty body is answered 400 without any store
\* operation and without changing a stored document; an Update that supplies
\* a title, even a blank one, is not rejected for supplying no field
C3_Step ==
    (StepAnswers /\ last'.op = "update") =>
        /\ last'.body = EmptyBody =>
            /\ last'.status = 400
            /\ last'.ops = 0
            /\ AnswersAtOnce
            /\ store' = store
        /\ last'.body.title # Undef => last'.msg # AtLeastOneMsg

C3_EmptyUpdateRejected == [][C3_Step]_vars

C3_Witness ==
    /\ last.op = "update"
    /\ last.body = EmptyBody
    /\ WellFormed(last.id)
    /\ last.id.key \in Live
    /\ last.msg = AtLeastOneMsg

\* the store has just applied the update that last' answers with 200
UpdateApplied ==
    AnswersFromStore /\ last'.op = "update" /\ last'.status = 200

\* an applied update leaves alone the fields its body does not name, the id
\* and createdAt of its document, and every other document
C4_Frame ==
    LET k == last'.id.key
        b == last'.body
    IN  /\ k \in Live
        /\ DOMAIN store' = DOMAIN store
        /\ \A j \in Live \ {k} : store'[j] = store[j]
        /\ store'[k].id = store[k].id
        /\ store'[k].createdAt = store[k].createdAt
        /\ b.title = Undef => store'[k].title = store[k].title
        /\ b.description = Undef => store'[k].description = store[k].description
        /\ b.completed = Undef => store'[k].completed = store[k].completed
        /\ last'.data = <<store'[k]>>

OnlyCompleted(b) == b.title = Undef /\ b.description = Undef /\ b.completed # Undef

\* C4 as stated: a successful Update overwrites only the fields its body names
\* and leaves the rest, the id, createdAt and the other documents unchanged;
\* when it names only completed, title and description keep their values and
\* updatedAt becomes strictly greater
C4_Original ==
    [][UpdateApplied =>
        /\ C4_Frame
        /\ OnlyCompleted(last'.body) =>
            /\ store'[last'.id.key].title = store[last'.id.key].title
            /\ store'[last'.id.key].description = store[last'.id.key].description
            /\ store'[last'.id.key].updatedAt > store[last'.id.key].updatedAt]_vars

\* C4 amended: as C4, but updatedAt becomes the clock reading taken when the
\* update was issued, which need not exceed the previous updatedAt
C4_FrameAndStamp ==
    [][UpdateApplied =>
        /\ C4_Frame
        /\ store'[last'.id.key].updatedAt = last'.at
        /\ OnlyCompleted(last'.body) =>
            /\ store'[last'.id.key].title = store[last'.id.key].title
            /\ store'[last'.id.key].description = store[last'.id.key].description
            /\ store'[last'.id.key].completed = (last'.body.completed = True)]_vars

C4_Witness ==
    /\ last.op = "update"
    /\ last.status = 200
    /\ last.body = Body(Undef, Undef, True)
    /\ last.id.key \in Live \cap (1..Len(InitialDocs))
    /\ store[last.id.key].completed
    /\ store[last.id.key].title = InitialDocs[last.id.key].title
    /\ store[last.id.key].updatedAt > store[last.id.key].createdAt

\* C5: after any interleaving of requests every stored title is a string that
\* is not empty and not whitespace-only; a Create or Update whose title is
\* blank fails and leaves the store unchanged
C5_Step ==
    /\ \A k \in DOMAIN store' : NonBlank(store'[k].title)
    /\ (StepAnswers /\ last'.op \in {"create", "update"}
            /\ last'.body.title.t = "str" /\ last'.body.title.core = 0) =>
        /\ ~last'.success
        /\ store' = store

C5_TitleNeverBlank == [][C5_Step]_vars

C5_Witness ==
    /\ last.op = "update"
    /\ last.body.title = Str(2, 0, 0)
    /\ last.id.key \in Live
    /\ ~last.success
    /\ BagToSet(inflight) # {}

\* C6: each field of a stored document holds the value of the latest store
\* operation that wrote it, however the updates of the document interleave:
\* no update is lost, and the last write to a field wins
C6_NoLostUpdate ==
    \A k \in Live :
        /\ store[k].title = written[k].title
        /\ store[k].description = written[k].description
        /\ store[k].completed = (written[k].completed = True)

C6_Witness ==
    /\ last.op = "update"
    /\ last.status = 200
    /\ last.raced
    /\ last.body.completed = True
    /\ last.id.key \in Live \cap (1..Len(InitialDocs))
    /\ store[last.id.key].title # InitialDocs[last.id.key].title
    /\ store[last.id.key].completed

\* a Delete of a well-formed id that the store has answered
DeleteAnswered ==
    /\ AnswersAtOnce
    /\ last'.op = "delete"
    /\ WellFormed(last'.id)
    /\ last'.cause # "StoreFailure"

\* an id the driver generated whose document is in the store no more
Gone(k) ==
    /\ k \notin Live
    /\ \A o \in BagToSet(inflight) : ~(o.kind = "create" /\ o.key = k)

\* C7: unless the store fails, a Delete of an absent id answers 404 and
\* changes nothing, a Delete of a stored document answers 200 with it and
\* removes it, so a second Delete of it answers 404; a removed document
\* never comes back, and Get and List answer from the store as it is
C7_Step ==
    /\ DeleteAnswered =>
        IF last'.id.key \in Live
        THEN /\ last'.status = 200
             /\ last'.data = <<store[last'.id.key]>>
             /\ DOMAIN store' = Live \ {last'.id.key}
             /\ \A j \in DOMAIN store' : store'[j] = store[j]
        ELSE /\ last'.status = 404
             /\ store' = store
    /\ (DeleteAnswered /\ last.op = "delete" /\ last.status = 200 /\ last'.id = last.id)
            => last'.status = 404
    /\ \A k \in 1..(nextId - 1) : Gone(k) => k \notin DOMAIN store'
    /\ (StepAnswers /\ last'.op = "get" /\ last'.status = 200) =>
            /\ last'.id.key \in DOMAIN store'
            /\ last'.data = <<store'[last'.id.key]>>
    /\ (StepAnswers /\ last'.op = "get" /\ last'.status = 404) =>
            last'.id.key \notin DOMAIN store'
    /\ (StepAnswers /\ last'.op = "list" /\ last'.status = 200) =>
            \A i \in 1..Len(last'.data) :
                /\ last'.data[i].id \in DOMAIN store'
                /\ \A k \in 1..(nextId - 1) : Gone(k) => last'.data[i].id # k

C7_DeleteThenNotFound == [][C7_Step]_vars

C7_Witness ==
    /\ nreq = 2
    /\ last.op = "delete"
    /\ last.status = 404
    /\ last.id.key = 1
    /\ nextId = 3
    /\ Live = {2}

\* C8: a step changes the store only when it answers a Create, an Update or a
\* Delete with success, by one store operation; Get and List leave the store
\* as it is; no request performs more than one store operation
C8_Step ==
    /\ store' # store =>
        /\ StepAnswers
        /\ last'.op \in {"create", "update", "delete"}
        /\ last'.success
        /\ last'.ops = 1
    /\ StepAnswers =>
        /\ last'.ops \in {0, 1}
        /\ last'.op \in {"get", "list"} => store' = store
        /\ last'.status \in {200, 201, 404} => last'.ops = 1
        /\ last'.status = 400 => last'.ops = 0

C8_OnlyWritesMutate == [][C8_Step]_vars

C8_Witness ==
    /\ last.op = "get"
    /\ last.status = 200
    /\ nreq = 2
    /\ last.data[1].updatedAt > last.data[1].createdAt

\* a body Create accepts: a title that is a string, not blank, at most 100
\* characters once trimmed; a description that is missing, or a string of at
\* most 500 characters once trimmed
ValidCreate(b) ==
    /\ b.title.t = "str" /\ b.title.core \in 1..100
    /\ \/ b.description.t \in {"undef", "null"}
       \/ b.description.t = "str" /\ b.description.core <= 500

\* C9: unless the store fails, a valid Create answers 201 with the stored
\* document: a fresh id, the trimmed title, completed false, createdAt equal
\* to updatedAt, and the trimmed description, absent when it is missing or blank
C9_Step ==
    (StepAnswers /\ last'.op = "create" /\ ValidCreate(last'.body)
        /\ last'.cause # "StoreFailure") =>
        /\ last'.status = 201
        /\ Len(last'.data) = 1
        /\ LET d == last'.data[1]
               b == last'.body
           IN  /\ d.id \notin DOMAIN store
               /\ DOMAIN store' = DOMAIN store \cup {d.id}
               /\ store'[d.id] = d
               /\ \A j \in DOMAIN store : store'[j] = store[j]
               /\ d.title = Str(0, b.title.core, 0)
               /\ d.completed = FALSE
               /\ d.createdAt = d.updatedAt
               /\ d.createdAt = last'.at
               /\ d.description =
                    IF b.description.t = "str" /\ b.description.core > 0
                    THEN Str(0, b.description.core, 0) ELSE Undef

C9_CreateStoresNormalized == [][C9_Step]_vars

C9_Witness ==
    /\ last.op = "create"
    /\ last.status = 201
    /\ last.body.title = Str(1, TitleMaxLen, 0)
    /\ last.body.description = Str(1, 0, 0)
    /\ last.data[1].description = Undef
    /\ last.data[1].id \in Live
    /\ Cardinality(Live) > 1

\* C10: a successful List answers 200 with every stored document once and no
\* other, newest createdAt first, and count is the length of data
C10_Step ==
    (StepAnswers /\ last'.op = "list" /\ last'.status = 200) =>
        /\ last'.count = Len(last'.data)
        /\ Len(last'.data) = Cardinality(DOMAIN store')
        /\ {last'.data[i] : i \in 1..Len(last'.data)} = {store'[k] : k \in DOMAIN store'}
        /\ \A i \in 1..Len(last'.data) : \A j \in 1..Len(last'.data) :
                i < j => last'.data[i].createdAt >= last'.data[j].createdAt

C10_ListNewestFirst == [][C10_Step]_vars

C10_Witness ==
    /\ last.op = "list"
    /\ last.status = 200
    /\ last.count = 2
    /\ last.data[1].createdAt > last.data[2].createdAt
    /\ last.data[2].updatedAt > last.data[1].updatedAt

====
